---- MODULE Spec2Model ----
(***************************************************************************)
(* A model of witcher's error chain (src/src/error.rs), its match_err!     *)
(* macro (src/src/lib.rs), the inspections made on a chain, the backtrace  *)
(* of a node (src/src/backtrace.rs) and the Wrapper methods of a Result    *)
(* (src/src/wrapper.rs).                                                   *)
(*                                                                         *)
(* A string is a sequence of chunks: "\n" is the newline character, every  *)
(* other chunk is a newline-free, non-empty piece of text.  Concatenation  *)
(* is \o, and `ends_with('\n')` looks at the last chunk.                   *)
(*                                                                         *)
(* An error value is the sequence of its layers, outermost first: layer    *)
(* i+1 is what `source()` of layer i returns.  A layer is either a chain   *)
(* node (a witcher::Error) or an external error (any other StdError).      *)
(***************************************************************************)
EXTENDS Integers, Sequences, FiniteSets, TLC

\* ------------------------------------------------------------------ bounds
\* The most chain nodes (Error::raw plus Error::wrapr calls) of one value.
MaxNodes == 3
\* The most layers of one external error (itself plus its nested causes).
MaxExt == 3
\* The most typed arms of one match_err! invocation.
MaxArms == 3
\* The largest budget `max` given to retry and retry_on.
MaxRetry == 3
\* The most functions called from main and not yet left.
MaxStack == 1
\* The most nodes of a value whose backtraces are taken at different depths.
MaxLinks == 2

\* ------------------------------------------------------------- text pieces
NL == "\n"

ERROR_TYPE == <<"witcher::Error">>
STDERROR_TYPE == <<"std::error::Error">>
LONG_ERROR_TYPE == <<"witcher::error::Error">>

\* Messages given to Error::raw / Error::wrapr: among them one that ends with
\* a newline.
Msgs == { <<"root">>, <<"ctx1">>, <<"ctx2">>, <<"wrapped">>, <<"ctx2", NL>> }

\* Display strings of external errors.
ExtMsgs == { <<"cause1">>, <<"cause2">>, <<"cause2", NL>> }

\* The messages used where only the shape of the chain matters.
ShapeMsgs == { <<"root">>, <<"ctx1">> }
ShapeExtMsgs == { <<"cause1">> }

\* ------------------------------------------------------------------- types
\* TypeId of witcher::Error and of the external error types.
ErrorT == "witcher::error::Error"
TestErrorT == "witcher::error::tests::TestError"
IoErrorT == "std::io::error::Error"

ExtTypes == { TestErrorT, IoErrorT }
Types == { ErrorT } \cup ExtTypes

\* std::any::type_name::<&E>() of the reference wrapr hands to Error::name.
type_name_of(tid) == <<"&", tid>>

\* Whether output is colorized: the tests' initialize() turns colour off
\* (TERM_COLOR=0), and every rendering below is made that way.
Colorized == FALSE

\* red(): the text in bright red when colorized, else the text unchanged.
red(s) == IF Colorized THEN <<"<ESC>[91m">> \o s \o <<"<ESC>[0m">> ELSE s

ends_with_nl(buf) == Len(buf) > 0 /\ buf[Len(buf)] = NL

\* ------------------------------------------------------------------ values
\* A layer: its TypeId, its message (a chain node's msg, an external error's
\* display string) and, for a chain node, the type label of what it wraps.
Layer(tid, msg, label) == [tid |-> tid, msg |-> msg, type_name |-> label]

RECURSIVE trim_start(_, _)
\* str::trim_start_matches: every leading occurrence of the chunk removed.
trim_start(s, c) ==
    IF Len(s) > 0 /\ Head(s) = c THEN trim_start(Tail(s), c) ELSE s

RECURSIVE split_first(_, _)
\* name.split('<').next(): the text before the first '<'.
split_first(s, c) ==
    IF Len(s) = 0 \/ Head(s) = c THEN <<>>
    ELSE <<Head(s)>> \o split_first(Tail(s), c)

\* Error::name: the cleaned-up type name.
name(raw_name) ==
    LET n1 == IF Len(raw_name) > 0 /\ Head(raw_name) = "&"
              THEN trim_start(raw_name, "&") ELSE raw_name
        n2 == IF Len(n1) > 0 /\ Head(n1) = "dyn "
              THEN trim_start(n1, "dyn ") ELSE n1
        n3 == split_first(n2, "<")
    IN  IF n3 = LONG_ERROR_TYPE THEN ERROR_TYPE ELSE n3

\* Error::raw: an origin node, no inner error.
raw(msg) == << Layer(ErrorT, msg, ERROR_TYPE) >>

\* Mutant of wrapr: the new node takes the place of the outermost layer.
wrapr_splice(err, msg) ==
    << Layer(ErrorT, msg, name(type_name_of(err[1].tid))) >> \o Tail(err)

\* Mutant of wrapr: the causes of the wrapped error are dropped.
wrapr_flat(err, msg) ==
    << Layer(ErrorT, msg, name(type_name_of(err[1].tid))), err[1] >>

\* Error::wrapr: a new outermost node that owns err as its inner error.
wrapr(err, msg) ==
    << Layer(ErrorT, msg, name(type_name_of(err[1].tid))) >> \o err

\* Error::new and Error::wrap: the same node inside Err(..).
new(msg) == raw(msg)
wrap(err, msg) == wrapr(err, msg)

\* tests::TestError { msg, inner }: an external error and its nested cause.
TestError(tid, msg, inner) == << Layer(tid, msg, <<>>) >> \o inner

\* <dyn StdError>::is::<T>: the value's TypeId is T's.
std_is(v, i, T) == v[i].tid = T

\* <dyn StdError>::downcast_ref::<T>: the reference itself when is::<T>, else
\* None (0).
std_downcast_ref(v, i, T) == IF std_is(v, i, T) THEN i ELSE 0

\* StdError::source of layer i: the next layer, or None (0).
source(v, i) == IF i < Len(v) THEN i + 1 ELSE 0

RECURSIVE ext_loop_nobreak(_, _, _)
\* Mutant of ext_loop: the `break` at the first external error is missing.
ext_loop_nobreak(v, stderr, src) ==
    IF src = 0 THEN stderr ELSE ext_loop_nobreak(v, src, source(v, src))

RECURSIVE ext_loop(_, _, _)
\* The `while let Some(err) = source` loop of Error::ext.
ext_loop(v, stderr, src) ==
    IF src = 0 THEN stderr
    ELSE IF ~std_is(v, src, ErrorT) THEN src
    ELSE ext_loop(v, src, source(v, src))

\* Mutant of ext: the node itself when the chain holds no external error.
ext_self(v) ==
    LET r == ext_loop(v, 1, source(v, 1))
    IN  IF std_is(v, r, ErrorT) THEN 1 ELSE r

\* Error::ext, called on the outermost node: the index of the layer returned.
ext(v) == ext_loop(v, 1, source(v, 1))

RECURSIVE last_loop(_, _, _)
\* The `while let Some(e) = source` loop of Error::last.
last_loop(v, err, src) ==
    IF src = 0 THEN err ELSE last_loop(v, src, source(v, src))

\* Mutant of last: the walk stops at the first external error.
last_stops_at_ext(v) == ext(v)

\* Error::last, called on the outermost node.
last(v) == last_loop(v, 1, source(v, 1))

\* Mutant of is: the first external cause is inspected, not the node.
is_of_ext(v, T) == std_is(v, ext(v), T)

\* Error::is / downcast_ref / downcast_mut: on the node itself.
is(v, T) == std_is(v, 1, T)
downcast_ref(v, T) == std_downcast_ref(v, 1, T)
downcast_mut(v, T) == std_downcast_ref(v, 1, T)

\* to_string() of layer i: plain Display, a node's msg or an external error's
\* display string.
to_string(v, i) == v[i].msg

RECURSIVE Display_loop_nodes_only(_, _, _)
\* Mutant of Display_loop: the walk ends at the first external cause.
Display_loop_nodes_only(v, buf, src) ==
    IF src = 0 \/ ~std_is(v, src, ErrorT) THEN buf
    ELSE LET b1 == IF ~ends_with_nl(buf) THEN buf \o <<NL>> ELSE buf
         IN  Display_loop_nodes_only(v, b1 \o <<" cause: ">> \o red(v[src].msg),
                                     source(v, src))

RECURSIVE Display_loop_label(_, _, _)
\* Mutant of Display_loop: the first cause line carries the node's type label,
\* as write_std's does.
Display_loop_label(v, buf, src) ==
    IF src = 0 THEN buf
    ELSE LET b1 == IF ~ends_with_nl(buf) THEN buf \o <<NL>> ELSE buf
             b2 == IF src = 2 THEN b1 \o <<" cause: ">> \o v[1].type_name \o <<": ">>
                   ELSE b1 \o <<" cause: ">>
         IN  Display_loop_label(v, b2 \o red(to_string(v, src)), source(v, src))

RECURSIVE Display_loop_always_nl(_, _, _)
\* Mutant of Display_loop: a newline before every cause line, whatever the
\* buffer ends with.
Display_loop_always_nl(v, buf, src) ==
    IF src = 0 THEN buf
    ELSE Display_loop_always_nl(
             v, buf \o <<NL, " cause: ">> \o red(to_string(v, src)), source(v, src))

RECURSIVE Display_loop(_, _, _)
\* The `while let Some(stderr) = source` loop of the alternate Display.
Display_loop(v, buf, src) ==
    IF src = 0 THEN buf
    ELSE LET b1 == IF ~ends_with_nl(buf) THEN buf \o <<NL>> ELSE buf
             b2 == b1 \o <<" cause: ">>
             b3 == IF std_downcast_ref(v, src, ErrorT) # 0
                   THEN b2 \o red(v[src].msg)
                   ELSE b2 \o red(to_string(v, src))
         IN  Display_loop(v, b3, source(v, src))

\* Mutant of Display_fmt: the alternate flag is not looked at.
Display_fmt_no_flag(v, alternate) ==
    Display_loop(v, <<" error: ">> \o red(v[1].msg), source(v, 1))

\* impl Display for Error.
Display_fmt(v, alternate) ==
    IF ~alternate THEN v[1].msg
    ELSE Display_loop(v, <<" error: ">> \o red(v[1].msg), source(v, 1))

\* --------------------------------------------------------------- backtrace
\* The tables of backtrace.rs.  A symbol and a file name are strings cut so
\* that an entry of a table, where it occurs in them, is a chunk of its own.
DEPENDENCY_FILE_PREFIXES ==
    { "/rustc/", "src/libstd/", "src/libpanic_unwind/", "src/libtest/" }

DEPENDENCY_FILE_CONTAINS == { "/.cargo/registry/src/" }

DEPENDENCY_SYM_PREFIXES ==
    { "std::", "core::", "witcher::error::", "<witcher::error::",
      "witcher::backtrace::", "backtrace::backtrace::", "_rust_begin_unwind",
      "color_traceback::", "__rust_", "___rust_", "__pthread", "_main",
      "main", "__scrt_common_main_seh", "BaseThreadInitThunk", "_start",
      "__libc_start_main", "start_thread", "__GI__" }

DEPENDENCY_SYM_CONTAINS == { "as witcher::wrapper::Wrapper" }

\* str::starts_with and str::contains of an entry of a table.
starts_with(s, x) == s # <<>> /\ s[1] = x
contains(s, x) == \E i \in 1..Len(s) : s[i] = x

\* cyan(): the text in bright cyan when colorized, else the text unchanged.
cyan(s) == IF Colorized THEN <<"<ESC>[96m">> \o s \o <<"<ESC>[0m">> ELSE s

\* The current working directory, and the hash that ends a mangled name.
Cwd == "/home/user/witcher/"
Hash == "::h5f0a1c2d3e4b6a79"

\* A resolved symbol of the captured stack: name and filename are <<>> when
\* the symbol has none, lineno and colno are <<>> or << number >>.
Symbol(nm, filename, lineno, colno) ==
    [name |-> nm, filename |-> filename, lineno |-> lineno, colno |-> colno]

\* The symbols of witcher's own functions that are on the stack when the
\* backtrace is taken.
SymBacktraceNew ==
    Symbol(<<"witcher::backtrace::", "new", Hash>>,
           <<Cwd, "src/", "backtrace.rs">>, <<42>>, <<14>>)
SymWrapperWrap ==
    Symbol(<<"<core::result::Result<T,E> ", "as witcher::wrapper::Wrapper",
             "<T,E>>::wrap", Hash>>,
           <<Cwd, "src/", "wrapper.rs">>, <<42>>, <<>>)

\* The symbols every stack of the program ends with: main of the program, a
\* closure of the runtime without a name, and the C entry point without a
\* file.
SymAppMain ==
    Symbol(<<"simple::", "main", Hash>>, <<Cwd, "examples/", "simple.rs">>,
           <<10>>, <<5>>)
SymClosure ==
    Symbol(<<>>, <<"/rustc/", "1.45.0/src/libcore/ops/function.rs">>,
           <<>>, <<>>)
SymMain == Symbol(<<"main">>, <<>>, <<>>, <<>>)
BaseStack == << SymAppMain, SymClosure, SymMain >>

\* The functions the program may be in when it makes or wraps an error: one
\* of a crate of the cargo registry, and one of its own whose name and file
\* hold entries of the prefix tables after their start.
SymRegistry ==
    Symbol(<<"serde::", "de::from_str", Hash>>,
           <<"/home/user", "/.cargo/registry/src/", "serde-1.0/src/de.rs">>,
           <<99>>, <<>>)
SymShim ==
    Symbol(<<"simple::", "std::", "shim", Hash>>,
           <<"/opt/vendor", "/rustc/", "shim.rs">>, <<7>>, <<3>>)
CallSymbols == { SymRegistry, SymShim }

\* format!("{:#}", name): the demangled name without its hash.
demangled(nm) ==
    IF nm # <<>> /\ nm[Len(nm)] = Hash THEN SubSeq(nm, 1, Len(nm) - 1) ELSE nm

\* std::env::current_dir() when it fails.
NoCwd == ""

\* Mutant of simple_path_at: what the path starts with is cut off, the
\* working directory or not.
simple_path_at_cut(cwd, filename) ==
    IF filename = <<>> THEN <<"<unknown>">> ELSE Tail(filename)

\* simple_path, cwd being what current_dir() returned: the path without the
\* working directory in front of it, the path itself when it is elsewhere or
\* there is no working directory, "<unknown>" without a path.
simple_path_at(cwd, filename) ==
    IF filename = <<>> THEN <<"<unknown>">>
    ELSE IF cwd # NoCwd /\ filename[1] = cwd THEN Tail(filename)
    ELSE filename

\* simple_path in a program whose working directory is there.
simple_path(filename) == simple_path_at(Cwd, filename)

\* struct Frame, as backtrace::new makes it of a symbol.
Frame(sym) ==
    [symbol |-> IF sym.name = <<>> THEN <<"<unknown>">>
                ELSE demangled(sym.name),
     filename |-> simple_path(sym.filename),
     lineno |-> sym.lineno,
     column |-> sym.colno]

\* backtrace::new() with the symbols stk on the stack, innermost first.
new_backtrace(stk) == [i \in 1..Len(stk) |-> Frame(stk[i])]

\* Mutant of is_dependency: an entry of a prefix table counts wherever it is.
is_dependency_anywhere(frame) ==
    \/ \E x \in DEPENDENCY_SYM_PREFIXES : contains(frame.symbol, x)
    \/ \E x \in DEPENDENCY_SYM_CONTAINS : contains(frame.symbol, x)
    \/ \E x \in DEPENDENCY_FILE_PREFIXES : contains(frame.filename, x)
    \/ \E x \in DEPENDENCY_FILE_CONTAINS : contains(frame.filename, x)

\* Frame::is_dependency.
is_dependency(frame) ==
    \/ \E x \in DEPENDENCY_SYM_PREFIXES : starts_with(frame.symbol, x)
    \/ \E x \in DEPENDENCY_SYM_CONTAINS : contains(frame.symbol, x)
    \/ \E x \in DEPENDENCY_FILE_PREFIXES : starts_with(frame.filename, x)
    \/ \E x \in DEPENDENCY_FILE_CONTAINS : contains(frame.filename, x)

\* -------------------------------------------------------------------- Debug
\* Mutant of write_std_loop: the nested causes are left out.
write_std_loop_first_only(v, buf, src) ==
    IF ends_with_nl(buf) THEN buf ELSE buf \o <<NL>>

RECURSIVE write_std_loop(_, _, _)
\* The loop of Error::write_std over the nested causes, and the newline that
\* ends the buffer unless it has one.
write_std_loop(v, buf, src) ==
    IF src = 0
    THEN IF ends_with_nl(buf) THEN buf ELSE buf \o <<NL>>
    ELSE LET b1 == IF ends_with_nl(buf) THEN buf ELSE buf \o <<NL>>
             b2 == b1 \o <<" cause: ">> \o red(STDERROR_TYPE) \o <<": ">>
                      \o red(to_string(v, src))
         IN  write_std_loop(v, b2, source(v, src))

\* Error::write_std of node n for its external cause stderr.
write_std(v, n, stderr) ==
    write_std_loop(v,
                   <<" cause: ">> \o red(v[n].type_name) \o <<": ">>
                       \o red(to_string(v, stderr)),
                   source(v, stderr))

\* usize::MAX, as far as the integers of the checker go: more than any
\* number of frames.
UsizeMax == 2147483647

\* `len - plen` of a build without overflow checks.
wrapping_sub(a, b) == IF a >= b THEN a - b ELSE UsizeMax - (b - a) + 1

\* Iterator::filter(|x| !x.is_dependency()) and Iterator::take(n).
non_dependency(frames) == SelectSeq(frames, LAMBDA x : ~is_dependency(x))
take(frames, n) == SubSeq(frames, 1, IF n < Len(frames) THEN n ELSE Len(frames))

\* The lines write_frames writes for one frame, without the newline that
\* separates it from the next.
write_frame(frame) ==
    <<"symbol: ">> \o cyan(frame.symbol) \o <<NL, "    at: ">>
        \o frame.filename
        \o (IF frame.lineno # <<>>
            THEN <<":", ToString(frame.lineno[1])>>
                     \o (IF frame.column # <<>>
                         THEN <<":", ToString(frame.column[1])>> ELSE <<>>)
            ELSE <<>>)

RECURSIVE write_each(_, _)
\* The loop of write_frames from frame i on.
write_each(frames, i) ==
    IF i > Len(frames) THEN <<>>
    ELSE write_frame(frames[i])
             \o (IF i + 1 <= Len(frames) THEN <<NL>> ELSE <<>>)
             \o write_each(frames, i + 1)

\* Error::write_frames of a node with backtrace bt; pbt is the backtrace of
\* the parent when has_parent.  `len - plen` panics in a build with overflow
\* checks when plen > len, and wraps around in a build without them.
write_frames(bt, pbt, has_parent, fullstack, checks) ==
    IF fullstack THEN [out |-> write_each(bt, 1), panicked |-> FALSE]
    ELSE LET frames == non_dependency(bt)
             len == Len(frames)
             plen == Len(non_dependency(pbt))
         IN  IF ~has_parent
             THEN [out |-> write_each(frames, 1), panicked |-> FALSE]
             ELSE IF checks /\ plen > len
             THEN [out |-> <<>>, panicked |-> TRUE]
             ELSE [out |-> write_each(take(frames, wrapping_sub(len, plen)), 1),
                   panicked |-> FALSE]

RECURSIVE Debug_errors(_, _)
\* The nodes Debug::fmt collects from node i on: i itself, then every source
\* that downcasts to Error, up to the first that does not.
Debug_errors(v, i) ==
    LET src == source(v, i)
    IN  IF src # 0 /\ std_downcast_ref(v, src, ErrorT) # 0
        THEN <<i>> \o Debug_errors(v, src)
        ELSE <<i>>

\* Vec::into_iter().rev().collect().
rev(s) == [i \in 1..Len(s) |-> s[Len(s) + 1 - i]]

RECURSIVE Debug_loop(_, _, _, _, _, _)
\* The loop of Debug::fmt from position i (counted from 1) of errors on.
Debug_loop(v, b, errors, i, fullstack, checks) ==
    LET len == Len(errors)
        n == errors[i]
        has_parent == i + 1 <= len
        head == <<" error: ">> \o red(ERROR_TYPE) \o <<": ">>
                    \o red(v[n].msg) \o <<NL>>
        std == IF i = 1 /\ source(v, n) # 0
               THEN write_std(v, n, source(v, n)) ELSE <<>>
        fr == write_frames(b[n], IF has_parent THEN b[errors[i + 1]] ELSE <<>>,
                           has_parent, fullstack, checks)
    IN  IF fr.panicked THEN [out |-> head \o std, panicked |-> TRUE]
        ELSE IF ~has_parent
        THEN [out |-> head \o std \o fr.out, panicked |-> FALSE]
        ELSE LET rest == Debug_loop(v, b, errors, i + 1, fullstack, checks)
             IN  [out |-> head \o std \o fr.out \o <<NL>> \o rest.out,
                  panicked |-> rest.panicked]

\* impl Debug for Error: fullstack is the alternate flag of the formatter,
\* checks tells whether the build has overflow checks.
Debug_fmt(v, b, fullstack, checks) ==
    Debug_loop(v, b, rev(Debug_errors(v, 1)), 1, fullstack, checks)

\* ------------------------------------------------------------------ results
\* A Result<T, E> of the Wrapper trait (src/src/wrapper.rs): Ok(val) or
\* Err(e).  e is the error value held, <<>> for a success; by tells which
\* computation made the result: 0 the receiver of the call, k the k-th call
\* of the closure.
Ok(by) == [ok |-> TRUE, e |-> <<>>, by |-> by]
Err(e, by) == [ok |-> FALSE, e |-> e, by |-> by]

\* Result::is_err.
is_err(result) == ~result.ok

\* Mutant of err_is: every layer of the chain is asked.
err_is_of_ext(result, U) ==
    IF result.ok THEN FALSE
    ELSE \E i \in 1..Len(result.e) : std_is(result.e, i, U)

\* Wrapper::err_is::<U>: `(e as &(dyn StdError + 'static)).is::<U>()`.
err_is(result, U) ==
    IF result.ok THEN FALSE ELSE std_is(result.e, 1, U)

\* What a closure `f(retries)` of the retry examples returns on its
\* attempt-th call: a success, or a failure of the Result's error type E.
Attempt(E, attempt, succeeds) ==
    IF succeeds THEN Ok(attempt)
    ELSE Err(IF E = ErrorT THEN raw(<<"failed">>)
             ELSE TestError(E, <<"failed">>, <<>>), attempt)

\* The literal of the hand-written loop `while retries < 3 && ..`.
LoopLimit == 3

\* Mutant of retry_cond: one more round than max is allowed.
retry_cond_le(r) == r.retries <= r.max /\ is_err(r.result)

\* Mutant of retry_cond: the result is not looked at.
retry_cond_blind(r) == r.retries < r.max

\* The loop condition of Wrapper::retry.
retry_cond(r) == r.retries < r.max /\ is_err(r.result)

\* Mutant of retry_on_cond: the error type is not compared.
retry_on_cond_untyped(r) == r.retries < r.max /\ ~r.result.ok

\* Mutant of retry_on_cond: one more round than max is allowed.
retry_on_cond_le(r) ==
    r.retries <= r.max /\ (IF r.result.ok THEN FALSE ELSE r.E = r.id)

\* The loop condition of Wrapper::retry_on: `TypeId::of::<E>() == id` on a
\* failure, false on a success.
retry_on_cond(r) ==
    r.retries < r.max /\ (IF r.result.ok THEN FALSE ELSE r.E = r.id)

\* Mutant of err_is_loop_cond: one more round than the literal is allowed.
err_is_loop_cond_le(r) == r.retries <= LoopLimit /\ err_is(r.result, r.id)

\* The condition of the hand-written loop of the retry tests:
\* `while retries < 3 && result.err_is::<std::io::Error>()`.
err_is_loop_cond(r) == r.retries < LoopLimit /\ err_is(r.result, r.id)

\* The condition of the loop that runs.
loop_cond(r) ==
    CASE r.fn = "retry" -> retry_cond(r)
      [] r.fn = "retry_on" -> retry_on_cond(r)
      [] r.fn = "err_is_loop" -> err_is_loop_cond(r)

\* Mutant of Error_pass: the value gets a node with an empty message.
Error_pass_wrapping(e) == wrapr(e, <<>>)

\* Error::pass(err): called by Wrapper::pass, its body is not part of the
\* sources at hand.  The value is handed on as it is: no node, no message.
Error_pass(e) == e

\* Mutant of Wrapper_wrap: a failure is handed on without a node.
Wrapper_wrap_bare(result, msg) == result

\* Wrapper::wrap.
Wrapper_wrap(result, msg) ==
    IF result.ok THEN result ELSE Err(wrap(result.e, msg), result.by)

\* Wrapper::pass.
Wrapper_pass(result) ==
    IF result.ok THEN result ELSE Err(Error_pass(result.e), result.by)

\* -------------------------------------------------------------- environment
\* The value of an environment variable is a string of characters, or bytes
\* that are not valid Unicode.  Str makes the string of a sequence of
\* characters, NotUnicode is such bytes, Absent is no value.
Str(chars) == [set |-> TRUE, unicode |-> TRUE, s |-> chars]
NotUnicode == [set |-> TRUE, unicode |-> FALSE, s |-> <<>>]
Absent == [set |-> FALSE, unicode |-> FALSE, s |-> <<>>]

\* The upper case letters of the strings at hand, each with its lower case.
CasePairs ==
    { <<"F", "f">>, <<"A", "a">>, <<"L", "l">>, <<"S", "s">>, <<"E", "e">>,
      <<"T", "t">>, <<"R", "r">>, <<"U", "u">> }

\* char::to_lowercase and str::to_lowercase.
lower(c) ==
    IF \E p \in CasePairs : p[1] = c
    THEN (CHOOSE p \in CasePairs : p[1] = c)[2]
    ELSE c
to_lowercase(s) == [i \in 1..Len(s) |-> lower(s[i])]

\* env::var(key): Ok(string) when the variable is set to valid Unicode,
\* Err(NotPresent) or Err(NotUnicode) otherwise.
env_var(e, key) ==
    IF e[key].set /\ e[key].unicode
    THEN [ok |-> TRUE, s |-> e[key].s]
    ELSE [ok |-> FALSE, s |-> <<>>]

\* Result::unwrap_or_else(|_| default).
unwrap_or_else(r, default) == IF r.ok THEN r.s ELSE default

\* term::var_enabled_d.
var_enabled_d(e, key, default) ==
    to_lowercase(unwrap_or_else(env_var(e, key), default))
        \notin { <<"f", "a", "l", "s", "e">>, <<"0">> }

\* term::var_enabled: the same with "false" written in.
var_enabled(e, key) ==
    to_lowercase(unwrap_or_else(env_var(e, key), <<"f", "a", "l", "s", "e">>))
        \notin { <<"f", "a", "l", "s", "e">>, <<"0">> }

\* The variables and the values the tests of term.rs use, a value in upper
\* case, an empty one and one that is not Unicode.
EnvKeys == { "FOOBAR", "BLAH" }
EnvStrings ==
    { <<"t", "r", "u", "e">>, <<"T", "r", "u", "e">>, <<"b", "l", "a", "h">>,
      <<"0">>, <<"f", "a", "l", "s", "e">>, <<"F", "a", "l", "s", "e">>,
      <<"F", "A", "L", "S", "E">>, <<>> }
EnvValues == { Str(s) : s \in EnvStrings } \cup { NotUnicode }
Defaults == { <<"f", "a", "l", "s", "e">>, <<"t", "r", "u", "e">>,
              <<"F", "a", "l", "s", "e">>, <<"0">> }

\* ------------------------------------------------------------------- state
VARIABLES
    err,    \* the error value at hand (<<>>: none yet)
    obs,    \* what the latest inspection of err returned
    mt,     \* the match_err! invocation in progress
    rt,     \* the retry loop in progress
    bts,    \* bts[i]: the backtrace of layer i of err, <<>> for an external
    stack,  \* the functions called from main and not yet left, innermost
            \* first
    env     \* the environment: the value of each variable

vars == << err, obs, mt, rt, bts, stack, env >>

NoObs == [op |-> "none", alt |-> FALSE, ty |-> "", at |-> 0, idx |-> 0,
          hit |-> FALSE, out |-> <<>>, self |-> Ok(0), ret |-> Ok(0),
          checks |-> FALSE, panicked |-> FALSE, key |-> "",
          default |-> <<>>, cwd |-> NoCwd, path |-> <<>>, msg |-> <<>>]

NoMatch == [pc |-> "idle", target |-> 0, arms |-> <<>>, i |-> 0,
            tested |-> <<>>, ran |-> <<>>, bound |-> 0, panicked |-> FALSE]

IsNode(l) == l.tid = ErrorT
Nodes(v) == { i \in 1..Len(v) : IsNode(v[i]) }
Exts(v) == { i \in 1..Len(v) : ~IsNode(v[i]) }

\* No retry loop runs.
NoRetry == [pc |-> "idle", fn |-> "", E |-> "", id |-> "", max |-> 0,
            retries |-> 0, self |-> Ok(0), result |-> Ok(0),
            calls |-> <<>>, made |-> <<>>]

\* The backtrace taken by a function of witcher that was entered through
\* the functions via.
Captured(via) == new_backtrace(via \o stack \o BaseStack)

Init ==
    /\ err = <<>> /\ obs = NoObs /\ mt = NoMatch /\ rt = NoRetry
    /\ bts = <<>> /\ stack = <<>>
    /\ env = [key \in EnvKeys |-> Absent]

\* Error::raw(msg), Error::new(msg), bail!(msg), err!(msg).
Raw(msg) ==
    /\ err' = raw(msg)
    /\ bts' = << Captured(<<SymBacktraceNew>>) >>
    /\ obs' = NoObs
    /\ UNCHANGED << mt, rt, stack, env >>

\* An external error is made: TestError { msg, inner: None }.
ExtNew(tid, msg) ==
    /\ err' = TestError(tid, msg, <<>>)
    /\ bts' = << <<>> >>
    /\ obs' = NoObs
    /\ UNCHANGED << mt, rt, stack, env >>

\* An external error of the same type takes the one at hand as its nested
\* cause: TestError { msg, inner: Some(Box::new(err)) }.
ExtNest(msg) ==
    /\ err # <<>>
    /\ ~IsNode(err[1])
    /\ Len(err) < MaxExt
    /\ err' = TestError(err[1].tid, msg, err)
    /\ bts' = << <<>> >> \o bts
    /\ obs' = NoObs
    /\ UNCHANGED << mt, rt, stack, env >>

\* Error::wrapr(err, msg), Error::wrap, wrap!, Wrapper::wrap on a failure.
Wrapr(msg) ==
    /\ err # <<>>
    /\ Cardinality(Nodes(err)) < MaxNodes
    /\ err' = wrapr(err, msg)
    /\ bts' = << Captured(<<SymBacktraceNew, SymWrapperWrap>>) >> \o bts
    /\ obs' = NoObs
    /\ UNCHANGED << mt, rt, stack, env >>

\* format!("{}", err) / err.to_string() and format!("{:#}", err).
DoDisplay(alternate) ==
    /\ err # <<>>
    /\ IsNode(err[1])
    /\ obs' = [NoObs EXCEPT !.op = "display", !.alt = alternate,
                            !.out = Display_fmt(err, alternate)]
    /\ UNCHANGED << err, bts, stack, mt, rt, env >>

\* err.ext()
DoExt ==
    /\ err # <<>>
    /\ IsNode(err[1])
    /\ obs' = [NoObs EXCEPT !.op = "ext", !.idx = ext(err)]
    /\ UNCHANGED << err, bts, stack, mt, rt, env >>

\* err.last()
DoLast ==
    /\ err # <<>>
    /\ IsNode(err[1])
    /\ obs' = [NoObs EXCEPT !.op = "last", !.idx = last(err)]
    /\ UNCHANGED << err, bts, stack, mt, rt, env >>

\* err.is::<T>()
DoIs(T) ==
    /\ err # <<>>
    /\ IsNode(err[1])
    /\ obs' = [NoObs EXCEPT !.op = "is", !.ty = T, !.at = 1, !.hit = is(err, T)]
    /\ UNCHANGED << err, bts, stack, mt, rt, env >>

\* err.downcast_ref::<T>()
DoDowncastRef(T) ==
    /\ err # <<>>
    /\ IsNode(err[1])
    /\ obs' = [NoObs EXCEPT !.op = "downcast_ref", !.ty = T, !.at = 1,
                            !.idx = downcast_ref(err, T)]
    /\ UNCHANGED << err, bts, stack, mt, rt, env >>

\* err.downcast_mut::<T>()
DoDowncastMut(T) ==
    /\ err # <<>>
    /\ IsNode(err[1])
    /\ obs' = [NoObs EXCEPT !.op = "downcast_mut", !.ty = T, !.at = 1,
                            !.idx = downcast_mut(err, T)]
    /\ UNCHANGED << err, bts, stack, mt, rt, env >>

\* r.is::<T>() on a &dyn StdError that is layer i of err: err itself when it
\* is an external error, or what err.ext(), err.last() or a walk of source()
\* returned.
DoStdIs(i, T) ==
    /\ i \in 1..Len(err)
    /\ obs' = [NoObs EXCEPT !.op = "std_is", !.ty = T, !.at = i,
                            !.hit = std_is(err, i, T)]
    /\ UNCHANGED << err, bts, stack, mt, rt, env >>

\* r.downcast_ref::<T>() on such a reference.
DoStdDowncastRef(i, T) ==
    /\ i \in 1..Len(err)
    /\ obs' = [NoObs EXCEPT !.op = "std_downcast_ref", !.ty = T, !.at = i,
                            !.idx = std_downcast_ref(err, i, T)]
    /\ UNCHANGED << err, bts, stack, mt, rt, env >>

\* The typed arms a match_err! invocation may list, in listing order.
ArmLists == UNION { [1..n -> Types] : n \in 1..MaxArms }

\* match_err!($err, { arms, _ => default }) begins; $err is layer `target` of
\* err (err itself, err.ext(), err.last(), ...).
MatchStart(target, arms) ==
    /\ mt.pc = "idle"
    /\ target \in 1..Len(err)
    /\ mt' = [NoMatch EXCEPT !.pc = "test", !.target = target, !.arms = arms,
                             !.i = 1]
    /\ UNCHANGED << err, bts, stack, obs, rt, env >>

\* Mutant of MatchTest: the arm is entered without the is::<$kind>() test.
MatchTest_unchecked ==
    /\ mt.pc = "test"
    /\ mt.i <= Len(mt.arms)
    /\ mt' = [mt EXCEPT !.tested = Append(@, mt.arms[mt.i]), !.pc = "bind"]
    /\ UNCHANGED << err, bts, stack, obs, rt, env >>

\* `if ($err as &dyn Error).is::<$kind>() { .. } else ..` of arm i.
MatchTest ==
    /\ mt.pc = "test"
    /\ mt.i <= Len(mt.arms)
    /\ LET hit == std_is(err, mt.target, mt.arms[mt.i])
       IN  mt' = [mt EXCEPT !.tested = Append(@, mt.arms[mt.i]),
                            !.pc = IF hit THEN "bind" ELSE "test",
                            !.i = IF hit THEN @ ELSE @ + 1]
    /\ UNCHANGED << err, bts, stack, obs, rt, env >>

\* Mutant of MatchBind: after the arm's body the next arms are still tried.
MatchBind_fallthrough ==
    /\ mt.pc = "bind"
    /\ mt' = [mt EXCEPT !.bound = std_downcast_ref(err, mt.target, mt.arms[mt.i]),
                        !.ran = Append(@, mt.i),
                        !.pc = "test",
                        !.i = @ + 1]
    /\ UNCHANGED << err, bts, stack, obs, rt, env >>

\* `let $var = ($err).downcast_ref::<$kind>().unwrap(); $arm`: the unwrap
\* panics on None, otherwise the arm's body runs with the typed reference.
MatchBind ==
    /\ mt.pc = "bind"
    /\ LET r == std_downcast_ref(err, mt.target, mt.arms[mt.i])
       IN  IF r = 0
           THEN mt' = [mt EXCEPT !.panicked = TRUE, !.pc = "done"]
           ELSE mt' = [mt EXCEPT !.bound = r, !.ran = Append(@, mt.i),
                                 !.pc = "done"]
    /\ UNCHANGED << err, bts, stack, obs, rt, env >>

\* The final `else { $default }`: body 0.
MatchDefault ==
    /\ mt.pc = "test"
    /\ mt.i > Len(mt.arms)
    /\ mt' = [mt EXCEPT !.ran = Append(@, 0), !.pc = "done"]
    /\ UNCHANGED << err, bts, stack, obs, rt, env >>

\* The value of the match_err! expression is taken.
MatchEnd ==
    /\ mt.pc = "done"
    /\ mt' = NoMatch
    /\ UNCHANGED << err, bts, stack, obs, rt, env >>

\* format!("{:?}", err) and format!("{:#?}", err), in a build with or
\* without overflow checks.
DoDebug(fullstack, checks) ==
    /\ err # <<>>
    /\ IsNode(err[1])
    /\ LET r == Debug_fmt(err, bts, fullstack, checks)
       IN  obs' = [NoObs EXCEPT !.op = "debug", !.alt = fullstack,
                                !.checks = checks, !.out = r.out,
                                !.panicked = r.panicked]
    /\ UNCHANGED << err, bts, stack, mt, rt, env >>

\* The program calls one of its functions.
PushFrame(sym) ==
    /\ Len(stack) < MaxStack
    /\ stack' = <<sym>> \o stack
    /\ UNCHANGED << err, bts, obs, mt, rt, env >>

\* The function the program is in returns.
PopFrame ==
    /\ stack # <<>>
    /\ stack' = Tail(stack)
    /\ UNCHANGED << err, bts, obs, mt, rt, env >>

\* env::set_var(key, value).
SetVar(key, value) ==
    /\ env' = [env EXCEPT ![key] = value]
    /\ obs' = NoObs
    /\ UNCHANGED << err, bts, stack, mt, rt >>

\* env::remove_var(key).
RemoveVar(key) ==
    /\ env[key].set
    /\ env' = [env EXCEPT ![key] = Absent]
    /\ obs' = NoObs
    /\ UNCHANGED << err, bts, stack, mt, rt >>

\* var_enabled(key).
DoVarEnabled(key) ==
    /\ obs' = [NoObs EXCEPT !.op = "var_enabled", !.key = key,
                            !.hit = var_enabled(env, key)]
    /\ UNCHANGED << err, bts, stack, mt, rt, env >>

\* var_enabled_d(key, default).
DoVarEnabledD(key, default) ==
    /\ obs' = [NoObs EXCEPT !.op = "var_enabled_d", !.key = key,
                            !.default = default,
                            !.hit = var_enabled_d(env, key, default)]
    /\ UNCHANGED << err, bts, stack, mt, rt, env >>

\* simple_path(filename), current_dir() returning cwd.
DoSimplePath(cwd, filename) ==
    /\ obs' = [NoObs EXCEPT !.op = "simple_path", !.cwd = cwd,
                            !.path = filename,
                            !.out = simple_path_at(cwd, filename)]
    /\ UNCHANGED << err, bts, stack, mt, rt, env >>

\* result.err_is::<U>() on Ok(()) or on Err(err).
DoErrIs(ok, U) ==
    /\ err # <<>>
    /\ LET result == IF ok THEN Ok(0) ELSE Err(err, 0)
       IN  obs' = [NoObs EXCEPT !.op = "err_is", !.ty = U, !.self = result,
                                !.hit = err_is(result, U)]
    /\ UNCHANGED << err, bts, stack, mt, rt, env >>

\* result.pass() on Ok(()) or on Err(err).
DoPass(ok) ==
    /\ err # <<>>
    /\ LET result == IF ok THEN Ok(0) ELSE Err(err, 0)
       IN  obs' = [NoObs EXCEPT !.op = "pass", !.self = result,
                                !.ret = Wrapper_pass(result)]
    /\ UNCHANGED << err, bts, stack, mt, rt, env >>

\* result.wrap(msg) on Ok(()) or on Err(err).
DoWrap(ok, msg) ==
    /\ err # <<>>
    /\ LET result == IF ok THEN Ok(0) ELSE Err(err, 0)
       IN  obs' = [NoObs EXCEPT !.op = "wrap", !.self = result, !.msg = msg,
                                !.ret = Wrapper_wrap(result, msg)]
    /\ UNCHANGED << err, bts, stack, mt, rt, env >>

\* The entry of a loop: `let mut retries = 0; let mut result = self;`.
Enter(fn, E, id, max, ok) ==
    /\ rt.pc # "loop"
    /\ LET self == Attempt(E, 0, ok)
       IN  rt' = [pc |-> "loop", fn |-> fn, E |-> E, id |-> id, max |-> max,
                  retries |-> 0, self |-> self, result |-> self,
                  calls |-> <<>>, made |-> <<>>]
    /\ UNCHANGED << err, bts, stack, obs, mt, env >>

\* result.retry(max, f) is called on a Result<T, E>.
Retry(E, max, ok) == Enter("retry", E, "", max, ok)

\* result.retry_on(max, id, f) is called on a Result<T, E>.
RetryOn(E, id, max, ok) == Enter("retry_on", E, id, max, ok)

\* The hand-written loop is entered with a Result<T, E>, asking for type T.
ErrIsLoop(E, T, ok) == Enter("err_is_loop", E, T, LoopLimit, ok)

\* Mutant of Iterate: a failed call leaves the result as it was.
Iterate_stale(succeeds) ==
    /\ rt.pc = "loop"
    /\ loop_cond(rt)
    /\ LET made == Attempt(rt.E, rt.retries + 1, succeeds)
       IN  rt' = [rt EXCEPT !.retries = @ + 1,
                            !.result = IF succeeds THEN made ELSE @,
                            !.calls = Append(@, rt.retries + 1),
                            !.made = Append(@, made)]
    /\ UNCHANGED << err, bts, stack, obs, mt, env >>

\* Mutant of Iterate: the counter is advanced by two.
Iterate_twice(succeeds) ==
    /\ rt.pc = "loop"
    /\ loop_cond(rt)
    /\ LET made == Attempt(rt.E, rt.retries + 2, succeeds)
       IN  rt' = [rt EXCEPT !.retries = @ + 2,
                            !.result = made,
                            !.calls = Append(@, rt.retries + 2),
                            !.made = Append(@, made)]
    /\ UNCHANGED << err, bts, stack, obs, mt, env >>

\* One round of the loop: `retries += 1; result = f(retries);`.
Iterate(succeeds) ==
    /\ rt.pc = "loop"
    /\ loop_cond(rt)
    /\ LET made == Attempt(rt.E, rt.retries + 1, succeeds)
       IN  rt' = [rt EXCEPT !.retries = @ + 1,
                            !.result = made,
                            !.calls = Append(@, rt.retries + 1),
                            !.made = Append(@, made)]
    /\ UNCHANGED << err, bts, stack, obs, mt, env >>

\* The loop condition is false: `result` is returned.
Return ==
    /\ rt.pc = "loop"
    /\ ~loop_cond(rt)
    /\ rt' = [rt EXCEPT !.pc = "done"]
    /\ UNCHANGED << err, bts, stack, obs, mt, env >>

\* Formatting: values built with every message, rendered by Display.
Next ==
    \/ \E m \in Msgs : Raw(m)
    \/ \E t \in ExtTypes, m \in ExtMsgs : ExtNew(t, m)
    \/ \E m \in ExtMsgs : ExtNest(m)
    \/ \E m \in Msgs : Wrapr(m)
    \/ \E a \in BOOLEAN : DoDisplay(a)

Spec == Init /\ [][Next]_vars

\* Inspection: values of every shape, inspected by ext, last, is and the
\* downcasts.
NextInspect ==
    \/ \E m \in ShapeMsgs : Raw(m)
    \/ \E t \in ExtTypes, m \in ShapeExtMsgs : ExtNew(t, m)
    \/ \E m \in ShapeExtMsgs : ExtNest(m)
    \/ \E m \in ShapeMsgs : Wrapr(m)
    \/ DoExt
    \/ DoLast
    \/ \E T \in Types : DoIs(T)
    \/ \E T \in Types : DoDowncastRef(T)
    \/ \E T \in Types : DoDowncastMut(T)
    \/ \E i \in 1..(MaxNodes + MaxExt), T \in Types : DoStdIs(i, T)
    \/ \E i \in 1..(MaxNodes + MaxExt), T \in Types : DoStdDowncastRef(i, T)

SpecInspect == Init /\ [][NextInspect]_vars

\* match_err!: values of every shape, matched at any layer with every list of
\* arms; downcasts made outside the macro.
NextMatch ==
    \/ mt.pc = "idle" /\ Raw(<<"root">>)
    \/ mt.pc = "idle" /\ \E t \in ExtTypes : ExtNew(t, <<"cause1">>)
    \/ mt.pc = "idle" /\ ExtNest(<<"cause1">>)
    \/ mt.pc = "idle" /\ Wrapr(<<"ctx1">>)
    \/ mt.pc = "idle" /\ \E T \in Types : DoDowncastRef(T)
    \/ mt.pc = "idle" /\ \E T \in Types : DoDowncastMut(T)
    \/ mt.pc = "idle" /\ \E T \in Types : DoStdDowncastRef(last(err), T)
    \/ \E i \in 1..(MaxNodes + MaxExt), arms \in ArmLists : MatchStart(i, arms)
    \/ MatchTest
    \/ MatchBind
    \/ MatchDefault
    \/ MatchEnd

SpecMatch == Init /\ [][NextMatch]_vars

\* The Wrapper methods on a result holding a value of every shape.
NextWrapper ==
    \/ \E m \in ShapeMsgs : Raw(m)
    \/ \E t \in ExtTypes, m \in ShapeExtMsgs : ExtNew(t, m)
    \/ \E m \in ShapeExtMsgs : ExtNest(m)
    \/ \E m \in ShapeMsgs : Wrapr(m)
    \/ \E ok \in BOOLEAN, U \in Types : DoErrIs(ok, U)
    \/ \E ok \in BOOLEAN : DoPass(ok)
    \/ \E ok \in BOOLEAN, m \in ShapeMsgs : DoWrap(ok, m)

SpecWrapper == Init /\ [][NextWrapper]_vars

\* The retry loops, with every error type, target type, budget and outcome
\* of each call of the closure.
NextRetry ==
    \/ \E E \in Types, max \in 0..MaxRetry, ok \in BOOLEAN : Retry(E, max, ok)
    \/ \E E \in Types, id \in Types, max \in 0..MaxRetry, ok \in BOOLEAN :
          RetryOn(E, id, max, ok)
    \/ \E E \in Types, T \in Types, ok \in BOOLEAN : ErrIsLoop(E, T, ok)
    \/ \E succeeds \in BOOLEAN : Iterate(succeeds)
    \/ Return

SpecRetry == Init /\ [][NextRetry]_vars

\* A loop that was entered runs on: its body is straight-line code around a
\* call of a closure that returns, and nothing else runs during the call.
SpecRetryFair ==
    SpecRetry /\ WF_vars((\E succeeds \in BOOLEAN : Iterate(succeeds)) \/ Return)

\* The messages and display strings of the values rendered by Debug: one
\* that ends with a newline and one that does not.
DebugMsgs == { <<"wrapped">>, <<"ctx2", NL>> }
DebugExtMsgs == { <<"cause1">>, <<"cause2", NL>> }

\* Debug rendering of values built with them.
NextDebug ==
    \/ \E m \in DebugMsgs : Raw(m)
    \/ \E t \in ExtTypes, m \in DebugExtMsgs : ExtNew(t, m)
    \/ \E m \in DebugExtMsgs : ExtNest(m)
    \/ \E m \in DebugMsgs : Wrapr(m)
    \/ \E fullstack \in BOOLEAN, checks \in BOOLEAN : DoDebug(fullstack, checks)

SpecDebug == Init /\ [][NextDebug]_vars

\* Debug rendering of values whose nodes were made at different depths of
\* the call stack.
NextFrames ==
    \/ Raw(<<"root">>)
    \/ ExtNew(TestErrorT, <<"cause1">>)
    \/ Cardinality(Nodes(err)) < MaxLinks /\ Wrapr(<<"ctx1">>)
    \/ \E sym \in CallSymbols : PushFrame(sym)
    \/ PopFrame
    \/ \E fullstack \in BOOLEAN, checks \in BOOLEAN : DoDebug(fullstack, checks)

SpecFrames == Init /\ [][NextFrames]_vars

\* Values of every shape, rendered and inspected in every way.
NextChain ==
    \/ \E m \in ShapeMsgs : Raw(m)
    \/ \E t \in ExtTypes, m \in ShapeExtMsgs : ExtNew(t, m)
    \/ \E m \in ShapeExtMsgs : ExtNest(m)
    \/ \E m \in ShapeMsgs : Wrapr(m)
    \/ \E a \in BOOLEAN : DoDisplay(a)
    \/ \E fullstack \in BOOLEAN, checks \in BOOLEAN : DoDebug(fullstack, checks)
    \/ DoExt
    \/ DoLast
    \/ \E T \in Types : DoIs(T)
    \/ \E T \in Types : DoDowncastRef(T)

SpecChain == Init /\ [][NextChain]_vars

\* The environment is set and asked.
NextEnv ==
    \/ \E key \in EnvKeys, value \in EnvValues : SetVar(key, value)
    \/ \E key \in EnvKeys : RemoveVar(key)
    \/ \E key \in EnvKeys : DoVarEnabled(key)
    \/ \E key \in EnvKeys, default \in Defaults : DoVarEnabledD(key, default)

SpecEnv == Init /\ [][NextEnv]_vars

\* The file paths of symbols: under the working directory, under a
\* directory whose name starts like it, under other directories, relative,
\* and the directories themselves.
PathRoots == { <<Cwd>>, <<"/home/user/witcher2/">>, <<"/rustc/">>,
               <<"/home/user/">>, <<>> }
PathDirs == { <<"src/">>, <<"123/src/libstd/">>, <<>> }
PathFiles == { <<"foo">>, <<"foobar">>, <<"backtrace.rs">>, <<"main.rs">>, <<>> }
Paths == { r \o d \o f : r \in PathRoots, d \in PathDirs, f \in PathFiles }

\* simple_path on every path, with and without a working directory.
NextPath ==
    \E cwd \in { Cwd, NoCwd }, filename \in Paths : DoSimplePath(cwd, filename)

SpecPath == Init /\ [][NextPath]_vars

\* ------------------------------------------------------------------ claims
CountChunk(s, c) == Cardinality({ i \in 1..Len(s) : s[i] = c })

IsPrefixChunk(c) == c \in { " error: ", " cause: " }
IsTextChunk(c) == ~IsPrefixChunk(c) /\ c # NL

RECURSIVE TextOf(_, _)
\* The messages of layers 1..n one after the other, their newlines left out.
TextOf(v, n) ==
    IF n = 0 THEN <<>>
    ELSE TextOf(v, n - 1) \o SelectSeq(v[n].msg, IsTextChunk)

Min(S) == CHOOSE x \in S : \A y \in S : x <= y
Max(S) == CHOOSE x \in S : \A y \in S : x >= y

Rendered(alternate) ==
    obs.op = "display" /\ obs.alt = alternate /\ err # <<>>

\* A node that directly wraps an external error of n layers.
WrapsExternal(v, n) ==
    /\ Len(v) = n + 1
    /\ Nodes(v) = {1}

\* C1: Terse rendering ("{}" / to_string) of any chain is exactly the
\* outermost node's message, whatever the depth and whatever the inner causes
\* are.
C1_TerseIsOutermostMessage ==
    Rendered(FALSE) => obs.out = err[1].msg

C1_Witness ==
    /\ Rendered(FALSE)
    /\ Cardinality(Nodes(err)) >= 2
    /\ Cardinality(Exts(err)) >= 2
    /\ obs.out = err[1].msg
    /\ err[1].msg # err[2].msg

\* C2 as stated: Summarized rendering ("{:#}") holds one " error: " line per
\* chain node, outer to inner; root wrapped with ctx1 and ctx2 renders as
\* " error: ctx2\n error: ctx1\n error: root".
C2_Original ==
    Rendered(TRUE) =>
        /\ CountChunk(obs.out, " error: ") = Cardinality(Nodes(err))
        /\ err = wrapr(wrapr(raw(<<"root">>), <<"ctx1">>), <<"ctx2">>) =>
               obs.out = << " error: ", "ctx2", NL, " error: ", "ctx1", NL,
                            " error: ", "root" >>

\* C2 as amended: Summarized rendering holds exactly one " error: " line, the
\* outermost node's, followed by one " cause: " line for every further layer
\* of the chain (inner chain nodes by their message, external errors and their
\* nested causes by their display string), outer to inner; root wrapped with
\* ctx1 and ctx2 renders as " error: ctx2\n cause: ctx1\n cause: root".
C2_SummarizedOneErrorLineThenCauses ==
    Rendered(TRUE) =>
        /\ SelectSeq(obs.out, IsPrefixChunk)
               = [ i \in 1..Len(err) |-> IF i = 1 THEN " error: " ELSE " cause: " ]
        /\ SelectSeq(obs.out, IsTextChunk) = TextOf(err, Len(err))
        /\ obs.out[1] = " error: "
        /\ err = wrapr(wrapr(raw(<<"root">>), <<"ctx1">>), <<"ctx2">>) =>
               obs.out = << " error: ", "ctx2", NL, " cause: ", "ctx1", NL,
                            " cause: ", "root" >>

C2_Witness ==
    /\ Rendered(TRUE)
    /\ err = wrapr(wrapr(raw(<<"root">>), <<"ctx1">>), <<"ctx2">>)
    /\ obs.out = << " error: ", "ctx2", NL, " cause: ", "ctx1", NL,
                    " cause: ", "root" >>

\* The two-level external error "cause1" -> "cause2" wrapped with "wrapped".
TwoLevelWrapped ==
    \E t \in ExtTypes :
        err = wrapr(TestError(t, <<"cause1">>, TestError(t, <<"cause2">>, <<>>)),
                    <<"wrapped">>)

\* C3 as stated: that value's Summarized rendering is
\* " error: wrapped\n cause: <label>: cause1\n cause: cause2", the first cause
\* line carrying the node's type label.
C3_Original ==
    (Rendered(TRUE) /\ TwoLevelWrapped) =>
        obs.out = << " error: ", "wrapped", NL, " cause: " >> \o err[1].type_name
                      \o << ": ", "cause1", NL, " cause: ", "cause2" >>

\* C3 as amended: that value's Summarized rendering is
\* " error: wrapped\n cause: cause1\n cause: cause2": no cause line of the
\* Summarized rendering carries a type label.
C3_SummarizedHasNoTypeLabel ==
    (Rendered(TRUE) /\ TwoLevelWrapped) =>
        /\ obs.out = << " error: ", "wrapped", NL, " cause: ", "cause1", NL,
                        " cause: ", "cause2" >>
        /\ \A i \in 1..Len(obs.out) :
               /\ <<obs.out[i]>> # err[1].type_name
               /\ obs.out[i] # ": "

C3_Witness ==
    /\ Rendered(TRUE)
    /\ TwoLevelWrapped
    /\ err[1].type_name \in { <<TestErrorT>>, <<IoErrorT>> }
    /\ Len(obs.out) = 8

RECURSIVE JoinedByNewlines(_, _)
\* " error: <message>" and the " cause: <display string>" lines of layers
\* 2..n, a newline between each two.
JoinedByNewlines(v, n) ==
    IF n = 1 THEN <<" error: ">> \o v[1].msg
    ELSE JoinedByNewlines(v, n - 1) \o <<NL, " cause: ">> \o v[n].msg

RECURSIVE JoinedUnlessNewline(_, _)
\* The same lines, the newline left out after a line that ends with one.
JoinedUnlessNewline(v, n) ==
    IF n = 1 THEN <<" error: ">> \o v[1].msg
    ELSE LET p == JoinedUnlessNewline(v, n - 1)
         IN  p \o (IF ends_with_nl(p) THEN <<>> ELSE <<NL>>)
               \o <<" cause: ">> \o v[n].msg

\* C4 as stated: "{:#}" of a node that wraps an external error with k nested
\* causes is " error: <message>" and k+1 lines " cause: <display string>",
\* joined by single newlines.
C4_Original ==
    (Rendered(TRUE) /\ \E n \in 1..(Len(err) - 1) : WrapsExternal(err, n)) =>
        obs.out = JoinedByNewlines(err, Len(err))

\* C4 as amended: "{:#}" of a node that wraps an external error with k nested
\* causes is " error: <message>" and k+1 lines " cause: <display string>", one
\* per external layer, outer to inner, with no type label and nothing after
\* the last line; the lines are joined by single newlines, except that no
\* newline is added after a message or display string that itself ends with a
\* newline.
C4_AlternateDisplayOfExternal ==
    (Rendered(TRUE) /\ \E n \in 1..(Len(err) - 1) : WrapsExternal(err, n)) =>
        obs.out = JoinedUnlessNewline(err, Len(err))

C4_Witness ==
    /\ Rendered(TRUE)
    /\ WrapsExternal(err, 3)
    /\ ends_with_nl(err[2].msg)
    /\ ~ends_with_nl(err[1].msg)
    /\ CountChunk(obs.out, NL) = 3

\* C5: Error::last follows the cause links through chain nodes and external
\* errors alike and returns the value that has no further cause; it returns
\* the start node when that has no cause.
C5_LastIsTerminal ==
    obs.op = "last" =>
        /\ obs.idx \in 1..Len(err)
        /\ source(err, obs.idx) = 0
        /\ obs.idx = Cardinality(Nodes(err)) + Cardinality(Exts(err))
        /\ err = wrapr(wrapr(raw(<<"root">>), <<"ctx1">>), <<"ctx1">>) =>
               err[obs.idx] = raw(<<"root">>)[1]

C5_Witness ==
    /\ obs.op = "last"
    /\ WrapsExternal(err, 3)
    /\ obs.idx = 4

\* C6 as stated: Error::ext returns the first external cause, and the
\* outermost node itself when the chain holds no external cause, for every
\* chain length.
C6_Original ==
    obs.op = "ext" =>
        obs.idx = IF Exts(err) = {} THEN 1 ELSE Min(Exts(err))

\* C6 as amended: Error::ext skips chain nodes and returns the first external
\* cause, never a nested cause of it; when the chain holds no external cause
\* it returns the innermost chain node, which is the node ext was called on
\* only for a chain of one node.
C6_ExtFirstExternalElseInnermost ==
    obs.op = "ext" =>
        /\ Exts(err) # {} =>
               /\ obs.idx = Min(Exts(err))
               /\ \A j \in 1..(obs.idx - 1) : IsNode(err[j])
        /\ Exts(err) = {} => obs.idx = Len(err)
        /\ obs.idx = 1 <=> Len(err) = 1

C6_Witness ==
    /\ obs.op = "ext"
    /\ Cardinality(Nodes(err)) = 2
    /\ Cardinality(Exts(err)) = 2
    /\ obs.idx = 3

\* C7: when the chain holds only Error nodes, Error::ext on the outermost node
\* returns the last (innermost) Error of the chain.
C7_ExtOfNodesOnlyIsLastNode ==
    (obs.op = "ext" /\ Exts(err) = {}) =>
        /\ obs.idx = Max(Nodes(err))
        /\ IsNode(err[obs.idx])
        /\ source(err, obs.idx) = 0

C7_Witness ==
    /\ obs.op = "ext"
    /\ Exts(err) = {}
    /\ Len(err) = 3
    /\ obs.idx = 3

IsResult(op) == op \in { "is", "std_is" }
RefResult(op) == op \in { "downcast_ref", "downcast_mut", "std_downcast_ref" }

FirstMatch(arms, tid) ==
    IF \E k \in 1..Len(arms) : arms[k] = tid
    THEN Min({ k \in 1..Len(arms) : arms[k] = tid })
    ELSE 0

\* C9: a downcast to a differing type yields an absent value and never
\* panics; in match_err! the unwrap of downcast_ref is reached only after
\* is<T> succeeded for the same value and type, so no arm panics.
C9_DowncastNeverPanics ==
    /\ ~mt.panicked
    /\ mt.pc = "bind" =>
           /\ std_is(err, mt.target, mt.arms[mt.i])
           /\ mt.tested[Len(mt.tested)] = mt.arms[mt.i]
    /\ mt.bound # 0 => mt.bound = mt.target /\ err[mt.target].tid = mt.arms[mt.i]
    /\ (RefResult(obs.op) /\ err[obs.at].tid # obs.ty) => obs.idx = 0

C9_Witness ==
    /\ mt.pc = "done"
    /\ ~mt.panicked
    /\ Len(mt.tested) >= 2
    /\ mt.bound = mt.target
    /\ mt.tested[1] # mt.tested[2]

\* C10: match_err! evaluates is<T> for the arms in listing order and runs
\* exactly one body: the first listed arm whose type is the error's concrete
\* type, bound to a typed reference, or the default if and only if no listed
\* type matches; arms after the first match are neither tested nor run.
C10_FirstMatchingArmWins ==
    LET fm == FirstMatch(mt.arms, err[mt.target].tid)
    IN  /\ Len(mt.ran) <= 1
        /\ mt.pc # "idle" =>
               /\ Len(mt.tested) <= Len(mt.arms)
               /\ mt.tested = SubSeq(mt.arms, 1, Len(mt.tested))
        /\ mt.pc = "done" =>
               /\ mt.ran = << fm >>
               /\ mt.tested = SubSeq(mt.arms, 1, IF fm = 0 THEN Len(mt.arms) ELSE fm)
               /\ mt.bound = IF fm = 0 THEN 0 ELSE mt.target
               /\ mt.ran = << 0 >> <=> \A k \in 1..Len(mt.arms) :
                                           mt.arms[k] # err[mt.target].tid

C10_Witness ==
    /\ mt.pc = "done"
    /\ Len(mt.arms) = 3
    /\ mt.ran = << 2 >>
    /\ mt.arms[3] = mt.arms[2]
    /\ Len(mt.tested) = 2

\* C11: err_is::<T>() of a result is true exactly when the result is a
\* failure whose immediate error value has the type T, and false for every
\* success.  The chain is not walked: for a failure holding a chain node over
\* an external error of type X, err_is::<X>() is false and err_is::<Error>()
\* is true.
C11_ErrIsAsksImmediateValue ==
    obs.op = "err_is" =>
        /\ obs.hit <=> (~obs.self.ok /\ obs.self.e[1].tid = obs.ty)
        /\ obs.self.ok => ~obs.hit
        /\ (~obs.self.ok /\ WrapsExternal(obs.self.e, 1)) =>
              /\ obs.ty = obs.self.e[2].tid => ~obs.hit
              /\ obs.ty = ErrorT => obs.hit

\* err_is::<X>() was asked of a failure holding a node over an X, and
\* answered false.
C11_Witness ==
    /\ obs.op = "err_is"
    /\ ~obs.self.ok
    /\ WrapsExternal(obs.self.e, 1)
    /\ obs.ty = obs.self.e[2].tid
    /\ ~obs.hit

\* The numbers 1..n in order.
Counting(n) == [i \in 1..n |-> i]

\* Every result of seq s is a failure.
AllFail(s) == \A i \in 1..Len(s) : ~s[i].ok

\* C12: retry with a budget of 0 never calls the closure and returns the
\* receiver unchanged, a success or a failure.
C12_ZeroBudgetReturnsReceiver ==
    (rt.fn = "retry" /\ rt.max = 0) => (rt.calls = <<>> /\ rt.result = rt.self)

\* retry(0, f) returned on a failed receiver.
C12_Witness ==
    /\ rt.fn = "retry"
    /\ rt.max = 0
    /\ rt.pc = "done"
    /\ ~rt.self.ok
    /\ rt.result = rt.self

\* C13: retry calls the closure only while the current result is a failure
\* and fewer than max calls were made; the attempt numbers passed are 1, 2,
\* 3, .. without gaps; it stops at the first success; a receiver that is a
\* success is returned without a call.
C13_RetryCallsWhileFailing ==
    rt.fn = "retry" =>
        /\ rt.calls = Counting(Len(rt.calls))
        /\ Len(rt.calls) <= rt.max
        /\ Len(rt.made) = Len(rt.calls)
        /\ rt.calls # <<>> => ~rt.self.ok
        /\ \A i \in 1..(Len(rt.made) - 1) : ~rt.made[i].ok
        /\ rt.self.ok => (rt.calls = <<>> /\ rt.result = rt.self)
        /\ rt.pc = "done" => (rt.result.ok \/ Len(rt.calls) = rt.max)

\* retry returned at the first success, after two failed calls and with
\* budget left.
C13_Witness ==
    /\ rt.fn = "retry"
    /\ rt.pc = "done"
    /\ rt.calls = <<1, 2, 3>>
    /\ ~rt.made[1].ok /\ ~rt.made[2].ok /\ rt.made[3].ok
    /\ rt.result = rt.made[3]

\* A loop returned after the receiver and every call of the closure failed.
AllFailed ==
    rt.pc = "done" /\ ~rt.self.ok /\ AllFail(rt.made)

\* The TypeId of the error value a failed result holds.
FailType(result) == result.e[1].tid

\* C14 as stated: when every attempt fails, retry and retry_on with max >= 1
\* return the failure made by the last call of the closure, the one with
\* attempt number max.
C14_Original ==
    (rt.fn \in {"retry", "retry_on"} /\ rt.max >= 1 /\ AllFailed) =>
        /\ Len(rt.calls) = rt.max
        /\ rt.result = rt.made[rt.max]

\* C14: when every attempt fails, retry with max >= 1, and retry_on with
\* max >= 1 whose target id is the TypeId of the result's error type, return
\* the failure made by call number max of the closure, as the closure made
\* it; retry_on with any other target id calls nothing and returns the
\* receiver's failure.
C14_AllFailedReturnsLastFailure ==
    (rt.fn \in {"retry", "retry_on"} /\ rt.max >= 1 /\ AllFailed) =>
        IF rt.fn = "retry" \/ rt.id = rt.E
        THEN /\ rt.calls = Counting(rt.max)
             /\ rt.result = rt.made[rt.max]
             /\ rt.result = Attempt(rt.E, rt.max, FALSE)
             /\ rt.result # rt.self
        ELSE /\ rt.calls = <<>>
             /\ rt.result = rt.self

\* retry_on on the receiver's own error type spent its whole budget on
\* failures and returned the last of them.
C14_Witness ==
    /\ rt.fn = "retry_on"
    /\ rt.max >= 2
    /\ AllFailed
    /\ rt.id = rt.E
    /\ rt.result = rt.made[rt.max]

\* C15: retry_on calls the closure only while the current failure has the
\* type T: at the first failure of another type, the receiver's or one a call
\* returned, the loop ends, makes no further call, spends no further budget
\* and returns that failure as it is.
C15_RetryOnStopsAtOtherType ==
    rt.fn = "retry_on" =>
        /\ rt.calls = Counting(rt.retries)
        /\ Len(rt.made) = rt.retries
        /\ \A i \in 1..Len(rt.calls) :
              LET current == IF i = 1 THEN rt.self ELSE rt.made[i - 1]
              IN  ~current.ok /\ FailType(current) = rt.id
        /\ (rt.pc = "done" /\ ~rt.result.ok /\ FailType(rt.result) # rt.id) =>
              rt.result = IF rt.made = <<>> THEN rt.self
                          ELSE rt.made[Len(rt.made)]
        /\ (~rt.self.ok /\ FailType(rt.self) # rt.id) =>
              (rt.retries = 0 /\ rt.result = rt.self)

\* retry_on with budget returned a receiver's failure of another type
\* without a call.
C15_Witness ==
    /\ rt.fn = "retry_on"
    /\ rt.pc = "done"
    /\ rt.max >= 1
    /\ ~rt.self.ok
    /\ FailType(rt.self) # rt.id
    /\ rt.calls = <<>>
    /\ rt.result = rt.self

\* C16: with a closure that always fails with type T, retry_on(3, T, f) on
\* such a failure calls the closure exactly 3 times, attempts 1, 2 and 3, and
\* returns the last failure; the hand-written loop
\* `while retries < 3 && result.err_is::<T>()` makes the same 3 calls.
C16_ThreeRetriesBothWays ==
    (rt.fn \in {"retry_on", "err_is_loop"} /\ rt.max = 3 /\ rt.id = rt.E
        /\ AllFailed) =>
            /\ rt.calls = <<1, 2, 3>>
            /\ rt.retries = 3
            /\ rt.result = rt.made[3]

\* retry_on(3, T, f) returned the third failure of type T.
C16_Witness ==
    /\ rt.fn = "retry_on"
    /\ rt.max = 3
    /\ rt.id = rt.E
    /\ rt.E = IoErrorT
    /\ AllFailed
    /\ rt.calls = <<1, 2, 3>>
    /\ rt.result = rt.made[3]

DebugRendered == obs.op = "debug" /\ ~obs.panicked /\ err # <<>>

\* The part of a Debug rendering before its first frame line.
BeforeFrames(out) ==
    LET at == { i \in 1..Len(out) : out[i] = "symbol: " }
    IN  IF at = {} THEN out ELSE SubSeq(out, 1, Min(at) - 1)

\* The cause line of external layer n of v: the type name of the wrapped
\* error for the first, "std::error::Error" for its nested causes.
CauseLine(v, n) ==
    <<" cause: ">> \o (IF n = 2 THEN << v[2].tid >> ELSE <<"std::error::Error">>)
        \o <<": ">> \o v[n].msg

RECURSIVE LinesTerminated(_, _)
\* The error line and the cause lines of layers 2..n, a newline after each.
LinesTerminated(v, n) ==
    IF n = 1 THEN <<" error: ", "witcher::Error", ": ">> \o v[1].msg \o <<NL>>
    ELSE LinesTerminated(v, n - 1) \o CauseLine(v, n) \o <<NL>>

RECURSIVE LinesTerminatedOnce(_, _)
\* The same lines, the newline left out after a cause line whose display
\* string ends with one.
LinesTerminatedOnce(v, n) ==
    IF n = 1 THEN <<" error: ", "witcher::Error", ": ">> \o v[1].msg \o <<NL>>
    ELSE LinesTerminatedOnce(v, n - 1) \o CauseLine(v, n)
             \o (IF ends_with_nl(v[n].msg) THEN <<>> ELSE <<NL>>)

\* C18 as stated: "{:?}" and "{:#?}" of a node that directly wraps an
\* external error begin, before any frame line, with
\* " error: witcher::Error: <message>", " cause: <type name>: <display
\* string>" and one " cause: std::error::Error: <display string>" per nested
\* cause, outer to inner, a newline after every line.
C18_Original ==
    (DebugRendered /\ \E n \in 1..(Len(err) - 1) : WrapsExternal(err, n)) =>
        BeforeFrames(obs.out) = LinesTerminated(err, Len(err))

\* C18 as amended: the same lines in the same order, a newline after the
\* error line always, and after a cause line unless its display string
\* itself ends with a newline.
C18_DebugHeaderOfExternal ==
    (DebugRendered /\ \E n \in 1..(Len(err) - 1) : WrapsExternal(err, n)) =>
        BeforeFrames(obs.out) = LinesTerminatedOnce(err, Len(err))

\* "{:#?}" of a node over an external error with two nested causes, the
\* first display string ending with a newline, the message too.
C18_Witness ==
    /\ DebugRendered
    /\ obs.alt
    /\ WrapsExternal(err, 3)
    /\ ends_with_nl(err[1].msg)
    /\ ends_with_nl(err[2].msg)
    /\ ~ends_with_nl(err[3].msg)
    /\ CountChunk(BeforeFrames(obs.out), " cause: ") = 3
    /\ Len(BeforeFrames(obs.out)) < Len(obs.out)

\* The cause links of v, read through source(), make one list: every link
\* leads to a later layer, no layer is the cause of two, and exactly one
\* layer, the origin, has no cause.
Linear(v) ==
    LET L == 1..Len(v)
    IN  /\ \A i \in L : source(v, i) = 0 \/ (source(v, i) \in L /\ source(v, i) > i)
        /\ \A i, j \in L : (source(v, i) # 0 /\ source(v, i) = source(v, j)) => i = j
        /\ v # <<>> => Cardinality({ i \in L : source(v, i) = 0 }) = 1

\* C19: after any sequence of origin and wrap operations the chain is a
\* linear, acyclic, unshared singly-linked list with exactly one origin; a
\* step that changes the value either starts a new value at its origin or
\* puts exactly one new outermost layer over the previous value, whose
\* layers keep their message, type label, frames and cause; a rendering, ext,
\* last, is or downcast_ref changes no node.
C19_ChainGrowsByPrepending ==
    [][ /\ Linear(err')
        /\ Len(bts') = Len(err')
        /\ \/ err' = err /\ bts' = bts
           \/ Len(err') = 1
           \/ /\ err # <<>>
              /\ Tail(err') = err
              /\ Tail(bts') = bts
              /\ source(err', 1) = 2
        /\ obs'.op # "none" => (err' = err /\ bts' = bts)
      ]_vars

\* A value of three nodes over an external error with a nested cause was
\* rendered by Debug.
C19_Witness ==
    /\ Cardinality(Nodes(err)) = 3
    /\ Cardinality(Exts(err)) = 2
    /\ obs.op = "debug"
    /\ \A i \in Nodes(err) : bts[i] # <<>>

\* A string starts with, or holds, an entry of table T.
StartsWithAny(s, T) == s # <<>> /\ s[1] \in T
HoldsAny(s, T) == \E i \in 1..Len(s) : s[i] \in T

\* The four ways of being a dependency frame.
ByTables(frame) ==
    \/ StartsWithAny(frame.symbol, DEPENDENCY_SYM_PREFIXES)
    \/ HoldsAny(frame.symbol, DEPENDENCY_SYM_CONTAINS)
    \/ StartsWithAny(frame.filename, DEPENDENCY_FILE_PREFIXES)
    \/ HoldsAny(frame.filename, DEPENDENCY_FILE_CONTAINS)

\* The frames of every backtrace of the value at hand.
FramesOf(b) ==
    UNION { { b[i][k] : k \in 1..Len(b[i]) } : i \in 1..Len(b) }

\* The symbols of the frame lines of a rendering, in the order written.
RECURSIVE WrittenSymbols(_, _)
WrittenSymbols(out, from) ==
    LET at == { i \in from..Len(out) : out[i] = "symbol: " }
    IN  IF at = {} THEN <<>>
        ELSE LET p == Min(at)
                 q == Min({ i \in p..Len(out) : out[i] = NL })
             IN  << SubSeq(out, p + 1, q - 1) >> \o WrittenSymbols(out, q)

RECURSIVE SymbolsFrom(_, _)
\* The symbols of every frame of nodes n, n-1, .. 1, the order of Debug.
SymbolsFrom(b, n) ==
    IF n = 0 THEN <<>>
    ELSE [k \in 1..Len(b[n]) |-> b[n][k].symbol] \o SymbolsFrom(b, n - 1)

\* C20: a frame is a dependency frame exactly when its symbol starts with an
\* entry of the symbol prefixes or holds an entry of the symbol substrings,
\* or its filename starts with an entry of the file prefixes or holds an
\* entry of the file substrings; no dependency frame is written by the
\* filtered rendering ("{:?}"), and the full rendering ("{:#?}") writes every
\* frame of every node.
C20_DependencyFramesFiltered ==
    /\ \A f \in FramesOf(bts) :
          /\ is_dependency(f) <=> ByTables(f)
          /\ is_dependency(f) <=>
                f \notin { Frame(SymAppMain), Frame(SymShim) }
    /\ obs.op = "debug" =>
          LET w == WrittenSymbols(obs.out, 1)
          IN  IF obs.alt
              THEN /\ ~obs.panicked
                   /\ w = SymbolsFrom(bts, Cardinality(Nodes(err)))
              ELSE \A k \in 1..Len(w) : \A f \in FramesOf(bts) :
                      f.symbol = w[k] => ~ByTables(f)

\* The filtered rendering of a node made inside a function of a registry
\* crate over a node made inside the function whose name holds "std::"
\* after its start: that function's frame is written, the crate's is not.
C20_Witness ==
    /\ obs.op = "debug"
    /\ ~obs.alt
    /\ ~obs.panicked
    /\ Len(bts) = 2
    /\ Frame(SymRegistry) \in FramesOf(<< bts[1] >>)
    /\ Frame(SymShim) \in FramesOf(<< bts[2] >>)
    /\ WrittenSymbols(obs.out, 1)
          = << Frame(SymShim).symbol, Frame(SymAppMain).symbol >>

\* Two strings are the same but for the case of their letters.
IgnoringCase(s, t) ==
    /\ Len(s) = Len(t)
    /\ \A i \in 1..Len(s) :
          s[i] = t[i] \/ <<s[i], t[i]>> \in CasePairs \/ <<t[i], s[i]>> \in CasePairs

\* The string is "false" in any case, or "0".
FalseOrZero(s) == IgnoringCase(s, <<"f", "a", "l", "s", "e">>) \/ s = <<"0">>

\* The variable asked last, and whether its value is a string that says
\* disabled.
Asked == env[obs.key]
SaysDisabled(v) == v.set /\ v.unicode /\ FalseOrZero(v.s)

\* C21: a variable is reported disabled exactly when it is absent
\* or its value is "false" or "0", compared without regard to case; every
\* other value is reported enabled; var_enabled_d differs only in taking the
\* given default for an absent variable.
C21_DisabledWhenAbsentFalseOrZero ==
    /\ obs.op = "var_enabled" =>
          (~obs.hit <=> (~Asked.set \/ SaysDisabled(Asked)))
    /\ obs.op = "var_enabled_d" =>
          (~obs.hit <=> IF ~Asked.set THEN FalseOrZero(obs.default)
                        ELSE SaysDisabled(Asked))

\* C22: simple_path stores a file path that lies under the current working
\* directory as the path relative to it, the prefix removed and the rest
\* unchanged; a path that is not under it is stored unchanged; a symbol
\* without a file path is stored as "<unknown>".
C22_PathRelativeToCwd ==
    obs.op = "simple_path" =>
        LET under == /\ obs.cwd # NoCwd
                     /\ obs.path # <<>>
                     /\ obs.path[1] = obs.cwd
        IN  /\ obs.path = <<>> => obs.out = <<"<unknown>">>
            /\ under => <<obs.cwd>> \o obs.out = obs.path
            /\ (obs.path # <<>> /\ ~under) => obs.out = obs.path

\* The path src/backtrace.rs of the working directory was stored as
\* "src/backtrace.rs".
C22_Witness ==
    /\ obs.op = "simple_path"
    /\ obs.cwd = Cwd
    /\ obs.path = <<Cwd, "src/", "backtrace.rs">>
    /\ obs.out = <<"src/", "backtrace.rs">>

\* C23: wrap(msg) on a success returns the same success and makes no node;
\* on a failure holding the error e it returns a failure holding a new node
\* whose message is msg and whose direct cause is e: the chain is one link
\* longer.
C23_WrapAddsOneNode ==
    obs.op = "wrap" =>
        /\ obs.self.ok => (obs.ret = obs.self /\ obs.ret.e = <<>>)
        /\ ~obs.self.ok =>
              /\ ~obs.ret.ok
              /\ Len(obs.ret.e) = Len(obs.self.e) + 1
              /\ IsNode(obs.ret.e[1])
              /\ obs.ret.e[1].msg = obs.msg
              /\ source(obs.ret.e, 1) = 2
              /\ Tail(obs.ret.e) = obs.self.e

\* wrap("ctx1") on a failure holding an io::Error with a nested cause.
C23_Witness ==
    /\ obs.op = "wrap"
    /\ obs.msg = <<"ctx1">>
    /\ ~obs.self.ok
    /\ Len(obs.self.e) = 2
    /\ obs.self.e[1].tid = IoErrorT
    /\ obs.ret.e = wrapr(obs.self.e, <<"ctx1">>)

\* C24: the filtered rendering never aborts for a value built by raw and
\* wrapr: the node that wraps a node has at most as many non-dependency
\* frames as the node it wraps, so `len - plen` does not underflow and the
\* frames written for a node are between none and all of its own; the
\* outermost node has all its non-dependency frames written.
C24_FilteredRenderingNeverAborts ==
    /\ \A i \in 2..Len(Debug_errors(err, 1)) :
          Len(non_dependency(bts[i - 1])) <= Len(non_dependency(bts[i]))
    /\ (obs.op = "debug" /\ ~obs.alt) =>
          /\ ~obs.panicked
          /\ \A f \in FramesOf(<< bts[1] >>) :
                ~is_dependency(f) =>
                    \E k \in 1..Len(WrittenSymbols(obs.out, 1)) :
                        WrittenSymbols(obs.out, 1)[k] = f.symbol

\* The positions of chunk c in s.
PositionsOf(s, c) == { i \in 1..Len(s) : s[i] = c }

\* The number of nodes v begins with: the run from the outermost node to the
\* first external cause.
LeadingNodes(v) ==
    CHOOSE k \in 0..Len(v) :
        /\ \A i \in 1..k : IsNode(v[i])
        /\ k = Len(v) \/ ~IsNode(v[k + 1])

\* The j-th smallest member of a set of positions.
Nth(S, j) == CHOOSE p \in S : Cardinality({ q \in S : q < p }) = j - 1

\* The error line of node n of v starts at position p of out.
ErrorLineAt(out, p, v, n) ==
    /\ p + 2 + Len(v[n].msg) + 1 <= Len(out)
    /\ SubSeq(out, p, p + 2 + Len(v[n].msg) + 1)
          = <<" error: ", "witcher::Error", ": ">> \o v[n].msg \o <<NL>>

\* C25: Debug collects the nodes from the outermost one up to the first
\* external cause and writes one " error: " line per collected node, the
\* innermost first and the outermost last; the " cause: " lines make one
\* block, directly after the line of the innermost collected node, written
\* exactly when that node has an external cause.
C25_ErrorLinesInnermostFirst ==
    obs.op = "debug" =>
        LET k == LeadingNodes(err)
            E == PositionsOf(obs.out, " error: ")
            C == PositionsOf(obs.out, " cause: ")
            S == PositionsOf(obs.out, "symbol: ")
        IN  /\ Debug_errors(err, 1) = [i \in 1..k |-> i]
            /\ Cardinality(E) = k
            /\ \A j \in 1..k : ErrorLineAt(obs.out, Nth(E, j), err, k + 1 - j)
            /\ C # {} <=> source(err, k) # 0
            /\ C # {} =>
                  /\ Nth(C, 1) = Nth(E, 1) + 2 + Len(err[k].msg) + 2
                  /\ \A c \in C : \A x \in (E \ {Nth(E, 1)}) \cup S : c < x

\* A call of retry or retry_on is running.
Retrying == rt.pc = "loop" /\ rt.fn \in {"retry", "retry_on"}

\* C26: retry and retry_on return, for every budget, receiver and closure
\* that returns; the closure is called at most max times; the counter goes
\* up by exactly one with each call of the closure, never changes otherwise
\* and never exceeds max.
C26_RetryTerminatesWithinMax ==
    /\ [](rt.fn \in {"retry", "retry_on"} =>
             /\ rt.retries <= rt.max
             /\ Len(rt.calls) = rt.retries)
    /\ [][Retrying =>
             \/ /\ rt'.retries = rt.retries + 1
                /\ rt'.calls = Append(rt.calls, rt'.retries)
             \/ /\ rt'.retries = rt.retries
                /\ rt'.calls = rt.calls]_vars
    /\ Retrying ~> rt.pc = "done"

\* retry spent a budget of three on three failed calls and returned.
C26_Witness ==
    /\ rt.fn = "retry"
    /\ rt.pc = "done"
    /\ rt.max = 3
    /\ rt.retries = 3
    /\ Len(rt.calls) = 3
    /\ ~rt.result.ok

\* The failures a running loop has looked at or will look at next: the
\* receiver's and those the calls of the closure returned.
FailuresSeen == { x \in {rt.self} \cup { rt.made[i] : i \in 1..Len(rt.made) } : ~x.ok }

\* C27: in one call of retry_on the type test gives one answer for every
\* failure, that of comparing the target id with the error type E of the
\* Result.  When they are equal, retry_on goes on and stops exactly where
\* retry does when it is in the same place with the same results, so it
\* makes the same calls with the same attempt numbers and returns the same
\* result; when they differ, the closure is never called and the receiver
\* is returned as it is.
C27_RetryOnIsRetryOrNothing ==
    rt.fn = "retry_on" =>
        /\ \A x \in FailuresSeen :
              retry_on_cond([rt EXCEPT !.retries = 0, !.max = 1, !.result = x])
                  <=> rt.id = rt.E
        /\ IF rt.id = rt.E
           THEN /\ rt.pc = "loop" =>
                      (loop_cond(rt) <=> loop_cond([rt EXCEPT !.fn = "retry"]))
                /\ rt.calls = Counting(Len(rt.calls))
                /\ rt.pc = "done" =>
                      \/ rt.result.ok
                      \/ Len(rt.calls) = rt.max
                /\ \A i \in 1..(Len(rt.made) - 1) : ~rt.made[i].ok
                /\ rt.result = IF rt.made = <<>> THEN rt.self
                               ELSE rt.made[Len(rt.made)]
           ELSE /\ rt.calls = <<>>
                /\ rt.result = rt.self

\* retry_on on the error type of its Result returned at the first success,
\* the second call, with budget left: where retry stops.
C27_Witness ==
    /\ rt.fn = "retry_on"
    /\ rt.pc = "done"
    /\ rt.id = rt.E
    /\ rt.max = 3
    /\ rt.calls = <<1, 2>>
    /\ ~rt.made[1].ok
    /\ rt.result.ok
    /\ ~retry_cond(rt)

\* The value a reference to layer i of v leads to: the layer with all the
\* causes below it.
Anchor(v, i) == SubSeq(v, i, Len(v))

\* C28: wrapping keeps the anchors of a chain.  For every node e and message
\* m, last of wrapr(e, m) is the value last of e is; when the chain of e
\* holds an external cause, ext of wrapr(e, m) is the value ext of e is; and
\* for an external error x, ext of wrapr(x, m) is x.
C28_WrappingKeepsAnchors ==
    err # <<>> =>
        \A m \in ShapeMsgs :
            LET w == wrapr(err, m)
            IN  /\ IsNode(err[1]) =>
                      /\ last(w) = last(err) + 1
                      /\ Anchor(w, last(w)) = Anchor(err, last(err))
                      /\ Exts(err) # {} =>
                            /\ ext(w) = ext(err) + 1
                            /\ Anchor(w, ext(w)) = Anchor(err, ext(err))
                /\ ~IsNode(err[1]) =>
                      /\ ext(w) = 2
                      /\ Anchor(w, ext(w)) = err

\* A node over an external error with a nested cause was wrapped: ext and
\* last of the wrapped value differ, and each is one layer further in than
\* it was.
C28_Witness ==
    /\ Len(err) = 4
    /\ err = wrapr(Tail(err), err[1].msg)
    /\ IsNode(err[2])
    /\ ext(Tail(err)) = 2
    /\ last(Tail(err)) = 3
    /\ ext(err) = 3
    /\ last(err) = 4

====
